---- MODULE Spec2Model ----
(***************************************************************************)
(* Backtracking search with AC-3 propagation and MRV / LCV ordering        *)
(* (HW2/Code/p2_csp_tests/backtracking.py) run on the course scheduling    *)
(* CSP (HW2/Code/p2_csp_tests/csp_scheduler.py).                           *)
(*                                                                         *)
(* The recursion of backtracking_helper is an explicit stack of frames;    *)
(* one iteration of the ac3 while loop is one step, and the arc that       *)
(* set.pop() hands out is any arc of the worklist.                         *)
(***************************************************************************)
EXTENDS Integers, Sequences, FiniteSets, TLC

(***************************************************************************)
(* Bounds of the scheduling instances that are enumerated.                 *)
(***************************************************************************)
NumSlots == 3
MaxDuration == 2

\* The professors list and the location -> capacity dictionary of the
\* instances, in their iteration order.
Professors == <<"P1", "P2">>
LocNames == <<"L1", "L2">>
LocCapacity == [l \in {"L1", "L2"} |-> IF l = "L1" THEN 1 ELSE 2]

\* What a course may ask for in the enumerated instances: its preferred
\* professors with its student count, and as prerequisite nothing or the
\* course listed before it.
StaffingChoices == {<<{"P1"}, 1>>, <<{"P1"}, 2>>, <<{"P1", "P2"}, 1>>}
PrereqChoices(course) == IF course = 1 THEN {{}} ELSE {{}, {course - 1}}

\* The result "no solution" (an item list no assignment equals) and the unset
\* variable slot of a frame.
None == << <<0, <<"None", "None", 0>> >> >>
NoVar == 0

VARIABLES
    variables,          \* csp.variables: the courses, in list order
    professors,         \* csp.professors
    loc_info_dict,      \* csp.loc_info_dict: location -> capacity
    course_info_dict,   \* csp.course_info_dict: course -> [preferred, students, duration, prereqs]
    time_slots,         \* len(csp.time_slots)
    adjacency,          \* csp.adjacency: course -> list of courses
    heap,               \* the domains objects: heap[0] is csp.domains, heap[d] the
                        \* object the helper frame at depth d works on
    pc,                 \* where the run stands
    assignment,         \* the one assignment dict shared by all helper frames
    stack,              \* the frames of backtracking_helper, root first
    arcs_queue,         \* ac3: the worklist (a Python set)
    current_domains,    \* ac3: the domains object it prunes in place (a reference)
    ac3_assignment,     \* ac3: the keys of its assignment argument
    is_consistent,      \* ac3: the flag it returned
    ac3_input,          \* the domains and the arcs ac3 was entered with, and by whom
    retval,             \* the value a helper call has just returned
    result,             \* what backtracking(csp) returned
    query,              \* the last call made directly to a method of csp or to a
                        \* heuristic: its name, its arguments and what it returned
    entry_order         \* ac3 called directly: the arcs of arcs_queue in the order
                        \* they entered it

csp_vars == <<variables, professors, loc_info_dict, course_info_dict, time_slots, adjacency>>
run_vars == <<heap, pc, assignment, stack, arcs_queue, current_domains, ac3_assignment,
              is_consistent, ac3_input, retval, result>>
vars == <<csp_vars, run_vars, query, entry_order>>

(***************************************************************************)
(* Sequences as Python lists.                                              *)
(***************************************************************************)
Range(s) == {s[i] : i \in 1..Len(s)}

\* range(n) as a list.
PyRange(n) == IF n <= 0 THEN <<>> ELSE [i \in 1..n |-> i - 1]

\* [x for x in s if x in keep]
Filter(s, keep) == SelectSeq(s, LAMBDA x : x \in keep)

\* sorted(s, key=...): stable; key is the function value -> sort key.
RECURSIVE SortedBy(_, _)
SortedBy(s, key) ==
    IF Len(s) <= 1 THEN s
    ELSE LET rest == SortedBy(SubSeq(s, 1, Len(s) - 1), key)
             x == s[Len(s)]
             k == Cardinality({i \in 1..Len(rest) : key[rest[i]] <= key[x]})
         IN  SubSeq(rest, 1, k) \o <<x>> \o SubSeq(rest, k + 1, Len(rest))

\* min(s, key=...): the first element of s whose key is the smallest.
MinBy(s, key) ==
    s[CHOOSE i \in 1..Len(s) :
        /\ \A j \in 1..Len(s) : key[s[i]] <= key[s[j]]
        /\ \A j \in 1..(i - 1) : key[s[j]] > key[s[i]]]

\* The longest list of doms.
MaxDomainLen(doms) ==
    LET lens == {Len(doms[var]) : var \in DOMAIN doms}
    IN  CHOOSE n \in lens : \A m \in lens : m <= n

(***************************************************************************)
(* SchedulerCSP.  A value is the tuple <<prof, loc, start_time>>.          *)
(***************************************************************************)
\* The list a triple nested loop appends to: for a in as: for b in bs: for c in cs.
Nested3(as, bs, cs) ==
    LET nb == Len(bs)
        nc == Len(cs)
    IN  [k \in 1..(Len(as) * nb * nc) |->
            << as[((k - 1) \div (nb * nc)) + 1],
               bs[(((k - 1) \div nc) % nb) + 1],
               cs[((k - 1) % nc) + 1] >>]

\* _create_domains, for one course.
CreateDomain(profs, locs, info, nslots, course) ==
    LET preferred_profs == info[course].preferred
        student_count == info[course].students
        duration == info[course].duration
    IN  Nested3(Filter(profs, preferred_profs),
                SelectSeq(LocNames, LAMBDA l : locs[l] >= student_count),
                PyRange(nslots - duration + 1))

\* _create_adjacency: every variable is connected to every other one.
CreateAdjacency(courses) ==
    [var1 \in Range(courses) |-> SelectSeq(courses, LAMBDA var2 : var1 # var2)]

\* before_courses[prereq]: the courses that list prereq among their prerequisites.
before_courses(prereq) ==
    {course \in Range(variables) : prereq \in course_info_dict[course].prereqs}

\* constraint_consistent without lines 238-240 and 244-246: a prerequisite is
\* enforced only when it is the second variable.
constraint_one_way(var1, val1, var2, val2) ==
    LET end_time1 == val1[3] + course_info_dict[var1].duration
        end_time2 == val2[3] + course_info_dict[var2].duration
        time_overlap == (val1[3] < end_time2) /\ (val2[3] < end_time1)
    IN  IF time_overlap /\ val1[1] = val2[1] THEN FALSE
        ELSE IF time_overlap /\ val1[2] = val2[2] THEN FALSE
        ELSE IF var2 \in course_info_dict[var1].prereqs /\ end_time2 > val1[3] THEN FALSE
        ELSE TRUE

constraint_consistent(var1, val1, var2, val2) ==
    LET prof1 == val1[1]
        loc1 == val1[2]
        start_time1 == val1[3]
        prof2 == val2[1]
        loc2 == val2[2]
        start_time2 == val2[3]
        duration1 == course_info_dict[var1].duration
        duration2 == course_info_dict[var2].duration
        end_time1 == start_time1 + duration1
        end_time2 == start_time2 + duration2
        time_overlap == (start_time1 < end_time2) /\ (start_time2 < end_time1)
        prereqs1 == course_info_dict[var1].prereqs
        prereqs2 == course_info_dict[var2].prereqs
    IN  IF time_overlap /\ prof1 = prof2 THEN FALSE
        ELSE IF time_overlap /\ loc1 = loc2 THEN FALSE
        ELSE IF var2 \in prereqs1 /\ end_time2 > start_time1 THEN FALSE
        ELSE IF var1 \in prereqs2 /\ end_time1 > start_time2 THEN FALSE
        ELSE IF var2 \in before_courses(var1) /\ end_time1 > start_time2 THEN FALSE
        ELSE IF var1 \in before_courses(var2) /\ end_time2 > start_time1 THEN FALSE
        ELSE TRUE

(***************************************************************************)
(* An assignment dict is the list of its <<variable, value>> items in      *)
(* insertion order.                                                        *)
(***************************************************************************)
Keys(a) == {a[i][1] : i \in 1..Len(a)}
Get(a, var) == a[CHOOSE i \in 1..Len(a) : a[i][1] = var][2]
\* a[var] = val
Put(a, var, val) ==
    IF var \in Keys(a)
    THEN [i \in 1..Len(a) |-> IF a[i][1] = var THEN <<var, val>> ELSE a[i]]
    ELSE Append(a, <<var, val>>)
\* Line 54 left out: the key stays.
pop_nothing(a, var) == a

\* a.pop(var, None)
Pop(a, var) == SelectSeq(a, LAMBDA item : item[1] # var)

\* One pass of the outer loop of check_partial_assignment: TRUE when course1
\* makes it return False.
PartialViolation(a, course1) ==
    LET val1 == Get(a, course1)
        prof1 == val1[1]
        loc1 == val1[2]
        start_time1 == val1[3]
        duration1 == course_info_dict[course1].duration
        end_time1 == start_time1 + duration1
    IN  \/ end_time1 > time_slots
        \/ prof1 \notin course_info_dict[course1].preferred
        \/ loc_info_dict[loc1] < course_info_dict[course1].students
        \/ \E prereq \in course_info_dict[course1].prereqs :
              /\ prereq \in Keys(a)
              /\ Get(a, prereq)[3] + course_info_dict[prereq].duration > start_time1
        \/ \E course2 \in Keys(a) :
              /\ course1 # course2
              /\ LET val2 == Get(a, course2)
                     end_time2 == val2[3] + course_info_dict[course2].duration
                     time_overlap == (start_time1 < end_time2) /\ (val2[3] < end_time1)
                 IN  \/ time_overlap /\ prof1 = val2[1]
                     \/ time_overlap /\ loc1 = val2[2]

check_partial_assignment(a) ==
    IF a = None THEN FALSE
    ELSE \A course1 \in Keys(a) : ~PartialViolation(a, course1)

\* is_goal without the completeness test.
is_goal_any_size(a) ==
    IF a = None THEN FALSE ELSE check_partial_assignment(a)

is_goal(a) ==
    IF a = None THEN FALSE
    ELSE IF Len(a) # Len(variables) THEN FALSE
    ELSE IF \E i \in 1..Len(a) :
                LET course == a[i][1]
                    val == a[i][2]
                IN  \/ val[1] \notin course_info_dict[course].preferred
                    \/ loc_info_dict[val[2]] < course_info_dict[course].students
                    \/ val[3] + course_info_dict[course].duration > time_slots
         THEN FALSE
    ELSE check_partial_assignment(a)

(***************************************************************************)
(* backtracking.py: propagation.                                           *)
(***************************************************************************)
\* The values of xi that revise keeps: those with a supporting value in xj.
\* revise returning the supported values last to first.
supported_reversed(xi, xj, doms) ==
    LET kept == SelectSeq(doms[xi], LAMBDA valxi :
                    \E valxj \in Range(doms[xj]) : constraint_consistent(xi, valxi, xj, valxj))
    IN  [i \in 1..Len(kept) |-> kept[Len(kept) + 1 - i]]

\* revise keeping only the values that agree with every value of xj.
agrees_with_all(xi, xj, doms) ==
    SelectSeq(doms[xi], LAMBDA valxi :
        \A valxj \in Range(doms[xj]) : constraint_consistent(xi, valxi, xj, valxj))

Supported(xi, xj, doms) ==
    SelectSeq(doms[xi], LAMBDA valxi :
        \E valxj \in Range(doms[xj]) : constraint_consistent(xi, valxi, xj, valxj))

\* revise(csp, xi, xj, current_domains): the domains it leaves behind.
\* It returns True exactly when they differ from the ones it was given.
\* revise that removes nothing.
revise_nothing(xi, xj, doms) == doms

revise(xi, xj, doms) == [doms EXCEPT ![xi] = Supported(xi, xj, doms)]

\* ac3, arcs_queue is None: every arc (var, n) and (n, var).
FullArcs ==
    UNION {UNION {{<<var, n>>, <<n, var>>} : n \in Range(adjacency[var])} :
              var \in Range(variables)}

\* ac3, lines 95-97: the arcs (xk, xi) added after a revision of xi against xj.
\* ac3 without lines 95-97.
no_requeue(xi, xj, assigned) == {}

Requeue(xi, xj, assigned) ==
    {<<xk, xi>> : xk \in {n \in Range(adjacency[xi]) : n # xj /\ n \notin assigned}}

\* ac3, lines 90-97: the worklist after one iteration that did not return.
\* Lines 95-97 run whether or not revise removed anything.
requeue_always(popped, xi, xj, revised, assigned) ==
    popped \cup Requeue(xi, xj, assigned)

NextQueue(popped, xi, xj, revised, assigned) ==
    IF revised THEN popped \cup Requeue(xi, xj, assigned) ELSE popped

\* ac3, lines 91-93: the revision has left the domain of xi empty.
\* Lines 92-93 left out: the loop goes on.
never_wiped_out(revised, domain) == FALSE

WipedOut(revised, domain) == revised /\ Len(domain) = 0

\* backtracking_helper, line 39: the arcs of the unassigned neighbours of var.
\* Line 39 with no neighbour.
no_seed_arcs(var, a) == {}

SeedArcs(var, a) ==
    {<<n, var>> : n \in {m \in Range(adjacency[var]) : m \notin Keys(a)}}

\* backtracking_helper, line 31: current_domains[var] = [val].
\* Line 31 left out.
not_restricted(doms, var, val) == doms

Restricted(doms, var, val) == [doms EXCEPT ![var] = <<val>>]

\* deepcopy: the reference it returns is the fresh object, never the source.
\* The same object instead of a copy.
same_object(source, fresh) == source

deepcopy(source, fresh) == fresh

(***************************************************************************)
(* backtracking.py: ordering heuristics.                                   *)
(***************************************************************************)
Unassigned(a) == SelectSeq(variables, LAMBDA var : var \notin Keys(a))

\* mrv ranking by the lengths of csp.domains.
mrv_original(a, doms) ==
    MinBy(Unassigned(a), [var \in Range(variables) |-> Len(heap[0][var])])

mrv(a, doms) ==
    MinBy(Unassigned(a), [var \in Range(variables) |-> Len(doms[var])])

count_conflicts(var, val, a, doms) ==
    LET neighbors == {n \in Range(adjacency[var]) : n \notin Keys(a)}
        conflicts == {<<neighbor, k>> \in neighbors \X (1..MaxDomainLen(doms)) :
                        /\ k <= Len(doms[neighbor])
                        /\ ~constraint_consistent(var, val, neighbor, doms[neighbor][k])}
    IN  Cardinality(conflicts)

\* The default ordering: the values in the order of the domain.
domain_order(var, a, doms) == doms[var]

lcv(var, a, doms) ==
    SortedBy(doms[var], [val \in Range(doms[var]) |-> count_conflicts(var, val, a, doms)])

var_selection_function(a, doms) == mrv(a, doms)

\* current_domains[var].sort(key=count_conflicts) in place of line 164.
sorted_in_place(var, a, doms) == [doms EXCEPT ![var] = lcv(var, a, doms)]

\* What mrv and lcv leave in current_domains: they assign to no entry of it,
\* and sorted() of line 164 builds a new list.
DomainsAfterOrdering(var, a, doms) == doms

\* The value order cut down to its first value.
val_order_first_only(var, a, doms) == SubSeq(lcv(var, a, doms), 1, 1)

val_order_function(var, a, doms) == lcv(var, a, doms)

(***************************************************************************)
(* The instances.                                                          *)
(***************************************************************************)
\* course_info_dict[course] = [preferred_profs, student_count, duration, prereqs]
Info(preferred_profs, student_count, duration, prereqs) ==
    [preferred |-> preferred_profs, students |-> student_count,
     duration |-> duration, prereqs |-> prereqs]

\* Three courses, with every combination of what a course may ask for.
Courses == <<1, 2, 3>>

CourseInfos(course) ==
    {Info(staffing[1], staffing[2], duration, prereqs) :
        staffing \in StaffingChoices, duration \in 1..MaxDuration,
        prereqs \in PrereqChoices(course)}

\* Four courses, where the search has to take a candidate back.
\* Tight: all four compete for professor P1 and location L2, and a helper
\* call two levels down runs out of values.
\* Retry: the root's first candidate is rejected by ac3 and a later one leads
\* to a solution.  DeepRetry: the same one level further down.
MoreCourses == <<1, 2, 3, 4>>

Tight(duration) ==
    [course \in Range(MoreCourses) |->
        Info({"P1"}, 2, IF course = Len(MoreCourses) THEN duration ELSE 1, {})]

Retry ==
    << Info({"P1"}, 2, 1, {4}), Info({"P1"}, 2, 1, {3}),
       Info({"P2"}, 1, 1, {}), Info({"P2"}, 2, 1, {}) >>

DeepRetry ==
    << Info({"P1"}, 1, 1, {2}), Info({"P2"}, 2, 1, {}),
       Info({"P1"}, 1, 1, {2}), Info({"P1", "P2"}, 1, 2, {}) >>

\* Two courses that each last all the time slots, with the same professor and
\* the same location: each has the single value <<"P1", "L2", 0>>, and the
\* two may not take the same value.
PairCourses == <<1, 2>>

WholeDay == [course \in Range(PairCourses) |-> Info({"P1"}, 2, NumSlots, {})]

\* Three courses of one slot each with the same professor and the same
\* location: the values of a course differ in the start time only, and two
\* courses may take any two different values.
AllDifferent == [course \in Range(Courses) |-> Info({"P1"}, 2, 1, {})]

CourseInfoDicts(courses) ==
    IF courses = Courses
    THEN {f \in [Range(courses) -> UNION {CourseInfos(c) : c \in Range(courses)}] :
            \A c \in Range(courses) : f[c] \in CourseInfos(c)}
    ELSE IF courses = MoreCourses
    THEN {Tight(duration) : duration \in 1..MaxDuration} \cup {Retry, DeepRetry}
    ELSE {WholeDay}

\* SchedulerCSP.__init__: self.domains.
InitialDomains ==
    [course \in Range(variables) |->
        CreateDomain(professors, loc_info_dict, course_info_dict, time_slots, course)]

\* An object slot nothing refers to.
Free == <<>>

\* No direct call has been made.
NoQuery == [fn |-> "none", args |-> <<>>, answer |-> FALSE]

Init ==
    /\ variables \in {Courses, MoreCourses, PairCourses}
    /\ professors = Professors
    /\ loc_info_dict = LocCapacity
    /\ time_slots = NumSlots
    /\ course_info_dict \in CourseInfoDicts(variables)
    /\ adjacency = CreateAdjacency(variables)
    /\ heap = [id \in 0..(Len(variables) + 1) |-> IF id = 0 THEN InitialDomains ELSE Free]
    /\ pc = "backtracking"
    /\ assignment = <<>>
    /\ stack = <<>>
    /\ arcs_queue = {}
    /\ current_domains = 0
    /\ ac3_assignment = {}
    /\ is_consistent = TRUE
    /\ ac3_input = [domains |-> InitialDomains, arcs |-> {}, call |-> "none"]
    /\ retval = None
    /\ result = None
    /\ query = NoQuery
    /\ entry_order = <<>>

(***************************************************************************)
(* Entering ac3 (lines 71-86) on the object ref.                           *)
(***************************************************************************)
EnterAc3(objects, ref, arcs, assigned, call) ==
    /\ heap' = objects
    /\ current_domains' = ref
    /\ arcs_queue' = arcs
    /\ ac3_assignment' = assigned
    /\ ac3_input' = [domains |-> objects[ref], arcs |-> arcs, call |-> call]
    /\ pc' = "ac3"

\* The slot of ref is cleared once no frame works on that object.
Release(objects, ref, frames) ==
    IF ref = 0 \/ \E i \in 1..Len(frames) : frames[i].current_domains = ref
    THEN objects
    ELSE [objects EXCEPT ![ref] = Free]

\* backtracking(csp), lines 7-14: copy the domains and run ac3 with the full
\* arc set and no assignment.
Backtracking ==
    /\ pc = "backtracking"
    /\ EnterAc3([heap EXCEPT ![1] = heap[0]], deepcopy(0, 1), FullArcs, {}, "initial")
    /\ UNCHANGED <<csp_vars, query, entry_order, assignment, stack, is_consistent, retval, result>>

(***************************************************************************)
(* ac3, lines 89-97: one iteration of the while loop, on any arc of the    *)
(* set.                                                                    *)
(***************************************************************************)
Ac3Step(arc) ==
    LET xi == arc[1]
        xj == arc[2]
        doms == heap[current_domains]
        revised_domains == revise(xi, xj, doms)
        revised == revised_domains # doms
        popped == arcs_queue \ {arc}
    IN  /\ heap' = [heap EXCEPT ![current_domains] = revised_domains]
        /\ IF WipedOut(revised, revised_domains[xi])
           THEN /\ is_consistent' = FALSE
                /\ arcs_queue' = popped
                /\ pc' = "ac3_return"
           ELSE /\ arcs_queue' = NextQueue(popped, xi, xj, revised, ac3_assignment)
                /\ UNCHANGED <<is_consistent, pc>>

Ac3Iteration ==
    /\ pc = "ac3"
    /\ \E arc \in arcs_queue : Ac3Step(arc)
    /\ UNCHANGED <<csp_vars, query, entry_order, assignment, stack, current_domains, ac3_assignment,
                   ac3_input, retval, result>>

\* ac3, line 99: the worklist is empty.
Ac3Exit ==
    /\ pc = "ac3"
    /\ arcs_queue = {}
    /\ is_consistent' = TRUE
    /\ pc' = "ac3_return"
    /\ UNCHANGED <<csp_vars, query, entry_order, heap, assignment, stack, arcs_queue, current_domains,
                   ac3_assignment, ac3_input, retval, result>>

(***************************************************************************)
(* A call of backtracking_helper pushes a frame; var and val_order are set *)
(* when its body runs.  entry_domains and entry_assignment record what the *)
(* call was entered with.                                                  *)
(***************************************************************************)
NewFrame(ref, doms, a) ==
    [var |-> NoVar, val_order |-> <<>>, idx |-> 0, current_domains |-> ref,
     entry_domains |-> doms, entry_assignment |-> a]

Top == stack[Len(stack)]
SetTop(frame) == [stack EXCEPT ![Len(stack)] = frame]
Caller == SubSeq(stack, 1, Len(stack) - 1)

\* backtracking, lines 15-18.
BacktrackingAfterAc3 ==
    /\ pc = "ac3_return"
    /\ ac3_input.call = "initial"
    /\ IF is_consistent
       THEN /\ stack' = <<NewFrame(current_domains, heap[current_domains], <<>>)>>
            /\ assignment' = <<>>
            /\ pc' = "helper"
            /\ UNCHANGED result
       ELSE /\ result' = None
            /\ pc' = "done"
            /\ UNCHANGED <<stack, assignment>>
    /\ UNCHANGED <<csp_vars, query, entry_order, heap, arcs_queue, current_domains, ac3_assignment,
                   is_consistent, ac3_input, retval>>

\* backtracking_helper, lines 22-26.
HelperEnter ==
    /\ pc = "helper"
    /\ IF is_goal(assignment)
       THEN /\ retval' = assignment
            /\ stack' = Caller
            /\ pc' = "returned"
            /\ UNCHANGED heap
       ELSE IF Unassigned(assignment) = <<>>
       THEN \* min() of an empty list raises ValueError
            /\ pc' = "error"
            /\ UNCHANGED <<stack, retval, heap>>
       ELSE LET doms == heap[Top.current_domains]
                var == var_selection_function(assignment, doms)
                val_order == val_order_function(var, assignment, doms)
            IN  /\ stack' = SetTop([Top EXCEPT !.var = var, !.val_order = val_order, !.idx = 1])
                /\ heap' = [heap EXCEPT ![Top.current_domains] =
                                DomainsAfterOrdering(var, assignment, doms)]
                /\ pc' = "loop"
                /\ UNCHANGED retval
    /\ UNCHANGED <<csp_vars, query, entry_order, assignment, arcs_queue, current_domains, ac3_assignment,
                   is_consistent, ac3_input, result>>

\* backtracking_helper, lines 29-43 and 54: the next candidate value.
HelperTry ==
    /\ pc = "loop"
    /\ Top.idx <= Len(Top.val_order)
    /\ LET var == Top.var
           val == Top.val_order[Top.idx]
           own == Top.current_domains
           fresh == Len(stack) + 1
           assigned == Put(assignment, var, val)
           restricted == [heap EXCEPT ![own] = Restricted(heap[own], var, val)]
       IN  IF check_partial_assignment(assigned)
           THEN /\ assignment' = assigned
                /\ EnterAc3([restricted EXCEPT ![fresh] = restricted[own]],
                            deepcopy(own, fresh), SeedArcs(var, assigned), Keys(assigned),
                            "seeded")
                /\ UNCHANGED stack
           ELSE /\ assignment' = Pop(assigned, var)
                /\ heap' = restricted
                /\ stack' = SetTop([Top EXCEPT !.idx = Top.idx + 1])
                /\ UNCHANGED <<arcs_queue, current_domains, ac3_assignment, ac3_input, pc>>
    /\ UNCHANGED <<csp_vars, query, entry_order, is_consistent, retval, result>>

\* backtracking_helper, lines 46-47 and 54: after ac3 on the child's copy.
HelperAfterAc3 ==
    /\ pc = "ac3_return"
    /\ ac3_input.call = "seeded"
    /\ IF is_consistent
       THEN /\ stack' = Append(stack, NewFrame(current_domains, heap[current_domains],
                                               assignment))
            /\ pc' = "helper"
            /\ UNCHANGED <<assignment, heap>>
       ELSE /\ assignment' = Pop(assignment, Top.var)
            /\ stack' = SetTop([Top EXCEPT !.idx = Top.idx + 1])
            /\ heap' = Release(heap, current_domains, stack)
            /\ pc' = "loop"
    /\ UNCHANGED <<csp_vars, query, entry_order, arcs_queue, current_domains, ac3_assignment,
                   is_consistent, ac3_input, retval, result>>

\* backtracking_helper, line 58: no value of var is viable.
HelperFail ==
    /\ pc = "loop"
    /\ Top.idx > Len(Top.val_order)
    /\ retval' = None
    /\ stack' = Caller
    /\ heap' = Release(heap, Top.current_domains, Caller)
    /\ pc' = "returned"
    /\ UNCHANGED <<csp_vars, query, entry_order, assignment, arcs_queue, current_domains, ac3_assignment,
                   is_consistent, ac3_input, result>>

\* backtracking_helper, lines 47-54: the recursive call has returned.
HelperResume ==
    /\ pc = "returned"
    /\ stack # <<>>
    /\ IF retval # None
       THEN /\ stack' = Caller
            /\ UNCHANGED <<assignment, pc>>
       ELSE /\ assignment' = Pop(assignment, Top.var)
            /\ stack' = SetTop([Top EXCEPT !.idx = Top.idx + 1])
            /\ pc' = "loop"
    /\ UNCHANGED <<csp_vars, query, entry_order, heap, arcs_queue, current_domains, ac3_assignment,
                   is_consistent, ac3_input, retval, result>>

\* backtracking, line 16: the root helper call has returned.
BacktrackingReturn ==
    /\ pc = "returned"
    /\ stack = <<>>
    /\ result' = retval
    /\ pc' = "done"
    /\ UNCHANGED <<csp_vars, query, entry_order, heap, assignment, stack, arcs_queue, current_domains,
                   ac3_assignment, is_consistent, ac3_input, retval>>

Next ==
    \/ Backtracking
    \/ Ac3Iteration
    \/ Ac3Exit
    \/ BacktrackingAfterAc3
    \/ HelperEnter
    \/ HelperTry
    \/ HelperAfterAc3
    \/ HelperFail
    \/ HelperResume
    \/ BacktrackingReturn

Spec == Init /\ [][Next]_vars

(***************************************************************************)
(* Brute force: every complete assignment, as a function variable -> value *)
(* with values from doms, whose distinct pairs are all constraint          *)
(* consistent.                                                             *)
(***************************************************************************)
RECURSIVE CompleteAll(_, _, _)
CompleteAll(f, rest, doms) ==
    IF rest = <<>> THEN {f}
    ELSE LET v == Head(rest)
             fits == {y \in Range(doms[v]) :
                        \A u \in DOMAIN f : constraint_consistent(u, f[u], v, y)}
         IN  UNION {CompleteAll(f @@ (v :> x), Tail(rest), doms) : x \in fits}

AllSolutions(doms) == CompleteAll(<<>>, variables, doms)

Done == pc = "done"

(***************************************************************************)
(* The same procedures with the worklist taken in one fixed order (the     *)
(* least arc first), as a function of their arguments.                     *)
(***************************************************************************)
FirstArc(queue) ==
    CHOOSE arc \in queue :
        \A other \in queue :
            arc[1] < other[1] \/ (arc[1] = other[1] /\ arc[2] <= other[2])

RECURSIVE Ac3InOrder(_, _, _)
Ac3InOrder(queue, doms, assigned) ==
    IF queue = {} THEN [consistent |-> TRUE, domains |-> doms]
    ELSE LET arc == FirstArc(queue)
             revised_domains == revise(arc[1], arc[2], doms)
             revised == revised_domains # doms
         IN  IF WipedOut(revised, revised_domains[arc[1]])
             THEN [consistent |-> FALSE, domains |-> revised_domains]
             ELSE Ac3InOrder(NextQueue(queue \ {arc}, arc[1], arc[2], revised, assigned),
                             revised_domains, assigned)

RECURSIVE HelperInOrder(_, _)
RECURSIVE TryInOrder(_, _, _, _, _)
HelperInOrder(a, doms) ==
    IF is_goal(a) THEN a
    ELSE IF Unassigned(a) = <<>> THEN None
    ELSE LET var == var_selection_function(a, doms)
         IN  TryInOrder(a, doms, var, val_order_function(var, a, doms), 1)

TryInOrder(a, doms, var, val_order, idx) ==
    IF idx > Len(val_order) THEN None
    ELSE LET val == val_order[idx]
             assigned == Put(a, var, val)
             restricted == Restricted(doms, var, val)
             child == Ac3InOrder(SeedArcs(var, assigned), restricted, Keys(assigned))
             found == IF check_partial_assignment(assigned) /\ child.consistent
                      THEN HelperInOrder(assigned, child.domains)
                      ELSE None
         IN  IF found # None THEN found
             ELSE TryInOrder(a, restricted, var, val_order, idx + 1)

RootInOrder == Ac3InOrder(FullArcs, InitialDomains, {})

BacktrackingInOrder ==
    IF RootInOrder.consistent THEN HelperInOrder(<<>>, RootInOrder.domains) ELSE None

\* The variable the root frame selects and its first candidate value.
RootVar == var_selection_function(<<>>, RootInOrder.domains)

RootFirstVal == val_order_function(RootVar, <<>>, RootInOrder.domains)[1]

(***************************************************************************)
(* C1 -- Soundness: an assignment returned by backtracking has exactly one *)
(* value for every variable of csp.variables, every pair of distinct       *)
(* variables in it is constraint_consistent, and csp.is_goal holds on it.  *)
(***************************************************************************)
Soundness ==
    (Done /\ result # None) =>
        /\ Len(result) = Len(variables)
        /\ Keys(result) = Range(variables)
        /\ \A i, j \in 1..Len(result) :
              i # j => constraint_consistent(result[i][1], result[i][2],
                                             result[j][1], result[j][2])
        /\ is_goal(result)

\* A solution was returned after the root frame had to give up its first
\* candidate value.
SoundnessWitness ==
    /\ Done
    /\ result # None
    /\ Get(result, RootVar) # RootFirstVal

(***************************************************************************)
(* C2 -- Completeness: backtracking returns an assignment if and only if   *)
(* some complete assignment with values from csp.domains satisfies every   *)
(* pairwise constraint; it returns None exactly when there is none.        *)
(***************************************************************************)
Completeness ==
    Done => ((result # None) <=> (AllSolutions(InitialDomains) # {}))

\* None was returned although the initial propagation found nothing wrong:
\* the search itself ran out of candidates.
CompletenessWitness ==
    /\ Done
    /\ result = None
    /\ ac3_input.call = "seeded"
    /\ AllSolutions(InitialDomains) = {}

(***************************************************************************)
(* C3 -- Determinism: whatever arc ac3 takes from its set at each step,    *)
(* backtracking returns the assignment (or None) that it returns when the  *)
(* arcs are taken in one fixed order.                                      *)
(***************************************************************************)
Determinism ==
    Done => result = BacktrackingInOrder

\* A four-course search that took a candidate of the root back and still
\* returned a solution: several ac3 calls, each with many arcs to choose from.
DeterminismWitness ==
    /\ Done
    /\ Len(variables) = Len(MoreCourses)
    /\ result # None
    /\ result = BacktrackingInOrder
    /\ Get(result, RootVar) # RootFirstVal

\* The complete consistent assignments over doms that agree with a.
SolutionsAgreeing(doms, a) ==
    {S \in AllSolutions(doms) : \A i \in 1..Len(a) : S[a[i][1]] = a[i][2]}

Ac3Returned == pc = "ac3_return"

Ac3Pruned == heap[current_domains] # ac3_input.domains

(***************************************************************************)
(* C4 -- Propagation soundness: when ac3 returns, every value of every     *)
(* complete consistent assignment over the input domains that agrees with  *)
(* the fixed assignment is still in its variable's domain, and if there is *)
(* such an assignment ac3 has returned True.                               *)
(***************************************************************************)
PropagationSoundness ==
    Ac3Returned =>
        \A S \in SolutionsAgreeing(ac3_input.domains, assignment) :
            /\ is_consistent
            /\ \A v \in Range(variables) : S[v] \in Range(heap[current_domains][v])

\* A seeded call that removed values from a solvable input and returned.
PropagationSoundnessWitness ==
    /\ Ac3Returned
    /\ ac3_input.call = "seeded"
    /\ Ac3Pruned
    /\ SolutionsAgreeing(ac3_input.domains, assignment) # {}

(***************************************************************************)
(* Running ac3 a second time: ac3(csp, None, None, D) on the domains D     *)
(* that the full pass has just returned with True.                         *)
(***************************************************************************)
Ac3Again ==
    /\ Ac3Returned
    /\ ac3_input.call = "initial"
    /\ is_consistent
    /\ EnterAc3(heap, current_domains, FullArcs, {}, "again")
    /\ UNCHANGED <<csp_vars, query, entry_order, assignment, stack, is_consistent, retval, result>>

NextTwice ==
    \/ Backtracking
    \/ Ac3Iteration
    \/ Ac3Exit
    \/ Ac3Again

SpecTwice == Init /\ [][NextTwice]_vars

(***************************************************************************)
(* C5 -- Propagation idempotence: a second full pass of ac3 on the domains *)
(* D that a first full pass returned with True never changes a domain and  *)
(* returns (True, D).                                                      *)
(***************************************************************************)
Idempotence ==
    ac3_input.call = "again" =>
        /\ heap[current_domains] = ac3_input.domains
        /\ is_consistent

\* The second pass has returned, after a first pass that removed values.
IdempotenceWitness ==
    /\ Ac3Returned
    /\ ac3_input.call = "again"
    /\ ac3_input.domains # InitialDomains

InSeededAc3 == pc \in {"ac3", "ac3_return"} /\ ac3_input.call = "seeded"

(***************************************************************************)
(* C7 -- Branch isolation and restore: for every candidate value val of    *)
(* the variable var of a frame, the domains copied and handed to ac3 are   *)
(* the domains the frame was entered with, with only var's entry replaced  *)
(* by [val].                                                               *)
(***************************************************************************)
BranchIsolation ==
    InSeededAc3 =>
        ac3_input.domains =
            [Top.entry_domains EXCEPT ![Top.var] = <<Top.val_order[Top.idx]>>]

\* The frame is on a later candidate, after ac3 on the copy made for an
\* earlier one removed values or a deeper frame failed.
BranchIsolationWitness ==
    /\ InSeededAc3
    /\ Top.idx >= 2
    /\ Len(stack) >= 2

RECURSIVE IsSubSeq(_, _)
IsSubSeq(s, t) ==
    IF s = <<>> THEN TRUE
    ELSE IF t = <<>> THEN FALSE
    ELSE IF Head(s) = Head(t) THEN IsSubSeq(Tail(s), Tail(t))
    ELSE IsSubSeq(s, Tail(t))

(***************************************************************************)
(* C8 -- Monotonic shrink: every step of a run of ac3 leaves each          *)
(* variable's domain a sub-sequence of what it was before the step, so no  *)
(* domain grows or is reordered.                                           *)
(***************************************************************************)
MonotonicShrink ==
    [][pc = "ac3" =>
          \A v \in Range(variables) :
              /\ IsSubSeq(heap'[current_domains][v], heap[current_domains][v])
              /\ Len(heap'[current_domains][v]) <= Len(heap[current_domains][v])]_vars

\* In the middle of a run, a domain has lost a value from between two that
\* it kept.
MonotonicShrinkWitness ==
    /\ pc = "ac3"
    /\ \E v \in Range(variables) :
          LET before == ac3_input.domains[v]
              now == heap[current_domains][v]
          IN  /\ Len(now) >= 2
              /\ \E i, j, k \in 1..Len(before) :
                    /\ i < j /\ j < k
                    /\ before[i] \in Range(now)
                    /\ before[j] \notin Range(now)
                    /\ before[k] \in Range(now)

\* The four-course instances alone.  The while loop of ac3 (lines 89-99)
\* takes its next step whenever it has one.
InitMore == Init /\ variables = MoreCourses

FairSpec == InitMore /\ [][Next]_vars /\ WF_vars(Ac3Iteration \/ Ac3Exit)

(***************************************************************************)
(* C9 -- Propagator termination: every ac3 call eventually returns, with   *)
(* its worklist empty or a domain empty, although revisions put arcs back  *)
(* on the worklist.                                                        *)
(***************************************************************************)
Ac3Terminates ==
    (pc = "ac3") ~> Ac3Returned

\* A call returned True with an empty worklist after it had revised the
\* domain of a variable with further unassigned neighbours, whose arcs were
\* put back on the worklist.
Ac3TerminatesWitness ==
    /\ Ac3Returned
    /\ is_consistent
    /\ arcs_queue = {}
    /\ \E xi \in Range(variables), xj \in Range(variables) :
          /\ <<xi, xj>> \in ac3_input.arcs
          /\ heap[current_domains][xi] # ac3_input.domains[xi]
          /\ Requeue(xi, xj, ac3_assignment) # {}

ArcConsistent(doms) ==
    \A xi \in Range(variables) :
        \A xj \in Range(adjacency[xi]) :
            \A valxi \in Range(doms[xi]) :
                \E valxj \in Range(doms[xj]) :
                    constraint_consistent(xi, valxi, xj, valxj)

(***************************************************************************)
(* C10 -- Arc-consistency postcondition: when an ac3 call of backtracking  *)
(* (the full pass or a seeded pass) returns True, every value left for a   *)
(* variable Xi has, for every Xj in adjacency[Xi], a value in Xj's domain  *)
(* with which constraint_consistent holds.                                 *)
(***************************************************************************)
ArcConsistencyPostcondition ==
    (Ac3Returned /\ is_consistent /\ ac3_input.call \in {"initial", "seeded"}) =>
        ArcConsistent(heap[current_domains])

\* A seeded pass with two variables assigned returned True on domains that
\* were not arc-consistent when it started.
ArcConsistencyPostconditionWitness ==
    /\ Ac3Returned
    /\ is_consistent
    /\ ac3_input.call = "seeded"
    /\ Cardinality(ac3_assignment) >= 2
    /\ ~ArcConsistent(ac3_input.domains)

\* The constraint between two different variables, on the values of
\* csp.domains, is "the two values differ".
ConstraintIsDifferent ==
    \A var1, var2 \in Range(variables) :
        var1 # var2 =>
            \A val1 \in Range(InitialDomains[var1]), val2 \in Range(InitialDomains[var2]) :
                constraint_consistent(var1, val1, var2, val2) <=> (val1 # val2)

\* Variables A and B, each with a domain of one and the same value, A # B.
TwoEqualSingletons ==
    /\ variables = PairCourses
    /\ course_info_dict = WholeDay
    /\ Len(InitialDomains[1]) = 1
    /\ InitialDomains[2] = InitialDomains[1]
    /\ ConstraintIsDifferent

(***************************************************************************)
(* C11 -- Infeasibility found by initial propagation: with two variables   *)
(* that each have the same single value and must differ, the initial ac3   *)
(* pass returns False with the domain of one of them empty, backtracking   *)
(* returns None, and backtracking_helper is never called.                  *)
(***************************************************************************)
InfeasibleAtRoot ==
    TwoEqualSingletons =>
        /\ pc \notin {"helper", "loop", "returned", "error"}
        /\ stack = <<>>
        /\ Ac3Returned =>
              /\ ~is_consistent
              /\ \E var \in Range(variables) : heap[current_domains][var] = <<>>
        /\ Done => result = None

\* backtracking has returned None on that instance, straight after the
\* initial pass.
InfeasibleAtRootWitness ==
    /\ TwoEqualSingletons
    /\ Done
    /\ result = None
    /\ ac3_input.call = "initial"
    /\ ~is_consistent

\* Variables A, B, C with the same three (or more) values, all different.
ThreeAllDifferent ==
    /\ variables = Courses
    /\ course_info_dict = AllDifferent
    /\ Len(InitialDomains[1]) >= 3
    /\ \A var \in Range(variables) : InitialDomains[var] = InitialDomains[1]
    /\ ConstraintIsDifferent

(***************************************************************************)
(* C12 -- With three variables over the same three values and the pairwise *)
(* all-different constraint, backtracking never returns None: what it      *)
(* returns gives the three variables three different values of the domain. *)
(***************************************************************************)
AllDifferentSolved ==
    (ThreeAllDifferent /\ Done) =>
        /\ result # None
        /\ Keys(result) = Range(variables)
        /\ Len(result) = Len(variables)
        /\ \A var \in Range(variables) : Get(result, var) \in Range(InitialDomains[var])
        /\ \A var1, var2 \in Range(variables) :
              var1 # var2 => Get(result, var1) # Get(result, var2)

\* backtracking has returned on that instance.
AllDifferentSolvedWitness ==
    /\ ThreeAllDifferent
    /\ Done
    /\ is_goal(result)

\* The running helper call has gone through all of val_order (line 58 is next).
OutOfCandidates == pc = "loop" /\ Top.idx > Len(Top.val_order)

(***************************************************************************)
(* C13 -- Failure is a value and leaves the assignment restored: when a    *)
(* call of backtracking_helper has no candidate left it returns None, no   *)
(* step raises, and the assignment then holds exactly the entries it held  *)
(* when that call was entered, without the branched variable.              *)
(***************************************************************************)
FailureRestores ==
    [][/\ pc' # "error"
       /\ OutOfCandidates =>
             /\ pc' = "returned"
             /\ retval' = None
             /\ assignment' = Top.entry_assignment
             /\ Top.var \notin Keys(assignment')]_vars

\* A helper call below the root has returned None to its caller, which had
\* made an assignment before calling it.
FailureRestoresWitness ==
    /\ pc = "returned"
    /\ retval = None
    /\ stack # <<>>
    /\ assignment # <<>>
    /\ Top.var \in Keys(assignment)

(***************************************************************************)
(* Direct calls of the methods of SchedulerCSP.  A value is any tuple of a *)
(* professor, a location and a time slot; an assignment is a dict with any *)
(* of the variables as keys, inserted in list order or in reverse.         *)
(***************************************************************************)
Values ==
    {<<prof, loc, start_time>> :
        prof \in Range(professors), loc \in Range(LocNames),
        start_time \in 0..(time_slots - 1)}

RECURSIVE ItemLists(_)
ItemLists(vs) ==
    IF vs = <<>> THEN {<<>>}
    ELSE LET rest == ItemLists(Tail(vs))
         IN  rest \cup {<< <<Head(vs), val>> >> \o a : val \in Values, a \in rest}

Reversed(s) == [i \in 1..Len(s) |-> s[Len(s) + 1 - i]]

Assignments ==
    LET inorder == ItemLists(variables)
    IN  inorder \cup {Reversed(a) : a \in inorder}

\* Three courses: the first asks for anything the instances allow, the second
\* and the third for professor P1 and two students.
ContractDicts ==
    {f \in CourseInfoDicts(Courses) :
        /\ f[2].preferred = {"P1"} /\ f[2].students = 2
        /\ f[3].preferred = {"P1"} /\ f[3].students = 2 /\ f[3].duration = 1}

InitContract == Init /\ variables = Courses /\ course_info_dict \in ContractDicts

\* No run of backtracking has started and no direct call has been made.
Idle == pc = "backtracking" /\ query = NoQuery

Answered(fn, args, answer) ==
    /\ query' = [fn |-> fn, args |-> args, answer |-> answer]
    /\ UNCHANGED <<csp_vars, run_vars, entry_order>>

\* csp.constraint_consistent(var1, val1, var2, val2)
ConstraintQuery ==
    /\ Idle
    /\ \E var1 \in Range(variables), var2 \in Range(variables) :
          \E val1 \in Values, val2 \in Values :
              Answered("constraint_consistent", <<var1, val1, var2, val2>>,
                       constraint_consistent(var1, val1, var2, val2))

\* csp.check_partial_assignment(assignment)
CheckPartialQuery ==
    /\ Idle
    /\ \E a \in Assignments \cup {None} :
          Answered("check_partial_assignment", a, check_partial_assignment(a))

\* csp.is_goal(assignment)
IsGoalQuery ==
    /\ Idle
    /\ \E a \in Assignments \cup {None} :
          Answered("is_goal", a, is_goal(a))

NextContract ==
    \/ ConstraintQuery
    \/ CheckPartialQuery
    \/ IsGoalQuery

SpecContract == InitContract /\ [][NextContract]_vars

(***************************************************************************)
(* C14 -- constraint_consistent of SchedulerCSP is symmetric: called with  *)
(* the two (variable, value) pairs exchanged it returns the same answer,   *)
(* which is a function of the four arguments.                              *)
(***************************************************************************)
ConstraintSymmetric ==
    query.fn = "constraint_consistent" =>
        /\ query.answer = constraint_consistent(query.args[3], query.args[4],
                                                query.args[1], query.args[2])
        /\ query.answer = constraint_consistent(query.args[1], query.args[2],
                                                query.args[3], query.args[4])

\* The call was refused for the prerequisite alone: var1 is a prerequisite of
\* var2, the two do not overlap, and var1 ends after var2 starts.
ConstraintSymmetricWitness ==
    /\ query.fn = "constraint_consistent"
    /\ ~query.answer
    /\ query.args[1] \in course_info_dict[query.args[3]].prereqs
    /\ query.args[2][1] # query.args[4][1]
    /\ query.args[2][2] # query.args[4][2]

\* Every pair of distinct keys of a is constraint_consistent.
PairwiseConsistent(a) ==
    \A i, j \in 1..Len(a) :
        i # j => constraint_consistent(a[i][1], a[i][2], a[j][1], a[j][2])

\* The value of every key of a is in the key's list of csp.domains.
FromDomains(a) ==
    \A i \in 1..Len(a) : a[i][2] \in Range(InitialDomains[a[i][1]])

(***************************************************************************)
(* C15 -- check_partial_assignment agrees with the pairwise check: for an  *)
(* assignment of any size, the empty one included, it returns True if and  *)
(* only if constraint_consistent holds for every pair of distinct assigned *)
(* variables.                                                              *)
(***************************************************************************)
PartialIsPairwise ==
    (query.fn = "check_partial_assignment" /\ query.args # None) =>
        (query.answer <=> PairwiseConsistent(query.args))

\* What does hold: the two agree on the assignments whose values are taken
\* from csp.domains.
PartialIsPairwiseFromDomains ==
    (query.fn = "check_partial_assignment" /\ query.args # None
        /\ FromDomains(query.args)) =>
        (query.answer <=> PairwiseConsistent(query.args))

\* An assignment of one course to a professor it does not prefer: there is
\* no pair to check, and check_partial_assignment returns False.
PartialIsPairwiseWitness ==
    /\ query.fn = "check_partial_assignment"
    /\ query.args # None
    /\ Len(query.args) = 1
    /\ query.args[1][2][1] \notin course_info_dict[query.args[1][1]].preferred
    /\ ~query.answer

(***************************************************************************)
(* C16 -- is_goal returns True if and only if the assignment has a value   *)
(* for every variable of the problem and check_partial_assignment returns  *)
(* True on it; on None it returns False.                                   *)
(***************************************************************************)
GoalIsCompleteAndPartial ==
    query.fn = "is_goal" =>
        /\ query.answer <=>
              /\ query.args # None
              /\ Keys(query.args) = Range(variables)
              /\ check_partial_assignment(query.args)
        /\ query.args = None => ~query.answer

\* is_goal was called on an assignment that passes check_partial_assignment
\* and lacks a variable, and returned False.
GoalIsCompleteAndPartialWitness ==
    /\ query.fn = "is_goal"
    /\ query.args # None
    /\ Len(query.args) = Len(variables) - 1
    /\ check_partial_assignment(query.args)
    /\ ~query.answer

\* The step of a helper call that selects its variable and orders its values.
Ordering == pc = "helper" /\ pc' = "loop"

(***************************************************************************)
(* C17 -- The ordering heuristics are pure queries: the step in which a    *)
(* helper call selects its variable and orders the values leaves every     *)
(* domain of current_domains and the assignment as they were.              *)
(***************************************************************************)
HeuristicsArePure ==
    [][Ordering =>
          /\ heap' = heap
          /\ assignment' = assignment]_vars

\* A helper call below the root has its value order, which is not the order
\* of the variable's domain, and the domain is as the call was entered with.
HeuristicsArePureWitness ==
    /\ pc = "loop"
    /\ Top.idx = 1
    /\ Len(stack) >= 2
    /\ Top.val_order # Top.entry_domains[Top.var]
    /\ heap[Top.current_domains] = Top.entry_domains
    /\ assignment = Top.entry_assignment

\* The frames that have selected their variable.
Branching == {i \in 1..Len(stack) : stack[i].var # NoVar}

(***************************************************************************)
(* C18 -- MRV on live domains: the variable a search node branches on is   *)
(* unassigned at that node, and no other unassigned variable has strictly  *)
(* fewer values in the current domains the node was given.                 *)
(***************************************************************************)
MrvOnLiveDomains ==
    \A i \in Branching :
        LET frame == stack[i]
        IN  /\ frame.var \in Range(variables)
            /\ frame.var \notin Keys(frame.entry_assignment)
            /\ \A other \in Range(variables) \ Keys(frame.entry_assignment) :
                  Len(frame.entry_domains[other]) >= Len(frame.entry_domains[frame.var])

\* A node below the root branches on a variable although another unassigned
\* one has strictly fewer values in csp.domains.
MrvOnLiveDomainsWitness ==
    /\ pc = "loop"
    /\ Len(stack) >= 2
    /\ \E other \in Range(variables) \ Keys(Top.entry_assignment) :
          Len(heap[0][other]) < Len(heap[0][Top.var])

(***************************************************************************)
(* Direct calls of var_selection_function.  The csp argument is any object *)
(* with variables and adjacency: the adjacency here is any symmetric graph *)
(* on the variables, each neighbour list in the order of csp.variables.    *)
(***************************************************************************)
Edges == {e \in SUBSET Range(Courses) : Cardinality(e) = 2}

AdjacencyOf(edges) ==
    [var1 \in Range(Courses) |-> SelectSeq(Courses, LAMBDA var2 : {var1, var2} \in edges)]

InitHeuristics ==
    /\ variables = Courses
    /\ professors = Professors
    /\ loc_info_dict = LocCapacity
    /\ time_slots = NumSlots
    /\ course_info_dict = AllDifferent
    /\ adjacency \in {AdjacencyOf(edges) : edges \in SUBSET Edges}
    /\ heap = [id \in 0..(Len(variables) + 1) |-> IF id = 0 THEN InitialDomains ELSE Free]
    /\ pc = "backtracking"
    /\ assignment = <<>>
    /\ stack = <<>>
    /\ arcs_queue = {}
    /\ current_domains = 0
    /\ ac3_assignment = {}
    /\ is_consistent = TRUE
    /\ ac3_input = [domains |-> InitialDomains, arcs |-> {}, call |-> "none"]
    /\ retval = None
    /\ result = None
    /\ query = NoQuery
    /\ entry_order = <<>>

\* A search node: some variables assigned the first value of their list in
\* csp.domains and cut down to it, every other variable left with the first
\* one or more values of its list.
SearchNodes ==
    {node \in [a : {a \in ItemLists(variables) : Len(a) < Len(variables) /\ FromDomains(a)},
               keep : [Range(variables) -> 1..MaxDomainLen(heap[0])]] :
        /\ \A i \in 1..Len(node.a) : node.a[i][2] = heap[0][node.a[i][1]][1]
        /\ \A var \in Range(variables) :
              /\ node.keep[var] <= Len(heap[0][var])
              /\ var \in Keys(node.a) => node.keep[var] = 1}

NodeDomains(node) ==
    [var \in Range(variables) |-> SubSeq(heap[0][var], 1, node.keep[var])]

\* var_selection_function(csp, assignment, current_domains)
VarSelectionQuery ==
    /\ Idle
    /\ \E node \in SearchNodes :
          Answered("var_selection_function", <<node.a, NodeDomains(node)>>,
                   var_selection_function(node.a, NodeDomains(node)))

NextHeuristics == VarSelectionQuery

SpecHeuristics == InitHeuristics /\ [][NextHeuristics]_vars

\* The unassigned neighbours of var.
Degree(var, a) == Cardinality({n \in Range(adjacency[var]) : n \notin Keys(a)})

\* The unassigned variables with the fewest values in doms.
Tied(a, doms) ==
    {var \in Range(variables) \ Keys(a) :
        \A other \in Range(variables) \ Keys(a) : Len(doms[var]) <= Len(doms[other])}

(***************************************************************************)
(* C19 -- Degree tie-break: when several unassigned variables share the    *)
(* minimum current domain size, the variable selected is one of them with  *)
(* the largest number of neighbours in csp.adjacency that are not in the   *)
(* assignment.                                                             *)
(***************************************************************************)
DegreeTieBreak ==
    query.fn = "var_selection_function" =>
        LET a == query.args[1]
            doms == query.args[2]
        IN  /\ query.answer \in Tied(a, doms)
            /\ \A other \in Tied(a, doms) : Degree(query.answer, a) >= Degree(other, a)

\* What does hold: the variable selected is the first of csp.variables among
\* the unassigned ones with the fewest values.
FirstOfTied ==
    query.fn = "var_selection_function" =>
        LET a == query.args[1]
            doms == query.args[2]
        IN  /\ query.answer \in Tied(a, doms)
            /\ \A other \in Tied(a, doms) : query.answer <= other

\* No variable is assigned, all have the same number of values, and the
\* variable selected has fewer unassigned neighbours than another one.
DegreeTieBreakWitness ==
    /\ query.fn = "var_selection_function"
    /\ query.args[1] = <<>>
    /\ Tied(query.args[1], query.args[2]) = Range(variables)
    /\ \E other \in Range(variables) :
          Degree(other, query.args[1]) > Degree(query.answer, query.args[1])

\* The pairs (unassigned neighbour n, value w of n's list in doms) that val
\* of var is not constraint_consistent with.
RuledOut(var, val, a, doms) ==
    {pair \in UNION {{<<n, w>> : w \in Range(doms[n])} :
                        n \in Range(adjacency[var]) \ Keys(a)} :
        ~constraint_consistent(var, val, pair[1], pair[2])}

(***************************************************************************)
(* C20 -- LCV ordering: the value order of a search node holds every value *)
(* of the selected variable's current domain exactly once, in              *)
(* non-decreasing order of the number of pairs (unassigned neighbour,      *)
(* value in its current domain) the value is not constraint_consistent     *)
(* with; assigned neighbours are not counted.                              *)
(***************************************************************************)
LcvOrdering ==
    \A i \in Branching :
        LET frame == stack[i]
            order == frame.val_order
            domain == frame.entry_domains[frame.var]
            ruled_out(val) == Cardinality(RuledOut(frame.var, val, frame.entry_assignment,
                                                   frame.entry_domains))
        IN  /\ Len(order) = Len(domain)
            /\ Range(order) = Range(domain)
            /\ Cardinality(Range(order)) = Len(order)
            /\ \A j, k \in 1..Len(order) :
                  j < k => ruled_out(order[j]) <= ruled_out(order[k])

\* A node with assigned neighbours whose value order is not the order of the
\* domain, because its values rule out different numbers of pairs.
LcvOrderingWitness ==
    /\ pc = "loop"
    /\ Top.entry_assignment # <<>>
    /\ Top.val_order # Top.entry_domains[Top.var]
    /\ Cardinality(RuledOut(Top.var, Top.val_order[1], Top.entry_assignment,
                            Top.entry_domains))
         < Cardinality(RuledOut(Top.var, Top.val_order[Len(Top.val_order)],
                                Top.entry_assignment, Top.entry_domains))

(***************************************************************************)
(* revise and ac3 called directly.  The current_domains argument gives     *)
(* every variable a run of consecutive values of its list in csp.domains,  *)
(* possibly none.                                                          *)
(***************************************************************************)
\* Three courses that all ask for professor P1 and two students.
PropagatorDicts ==
    {f \in CourseInfoDicts(Courses) :
        \A course \in Range(Courses) :
            /\ f[course].preferred = {"P1"}
            /\ f[course].students = 2
            /\ course = Len(Courses) => f[course].duration = 1}

InitPropagator == Init /\ variables = Courses /\ course_info_dict \in PropagatorDicts

Windows(list) ==
    {SubSeq(list, lo, hi) : lo \in 1..(Len(list) + 1), hi \in 0..Len(list)}

DomainInputs ==
    {doms \in [Range(variables) -> UNION {Windows(heap[0][var]) : var \in Range(variables)}] :
        \A var \in Range(variables) : doms[var] \in Windows(heap[0][var])}

\* list.remove(val): the list without its first item equal to val.
Remove(list, val) ==
    LET first == CHOOSE i \in 1..Len(list) :
                    list[i] = val /\ \A j \in 1..(i - 1) : list[j] # val
    IN  SubSeq(list, 1, first - 1) \o SubSeq(list, first + 1, Len(list))

\* revise, line 103: the list the for loop walks.
\* The loop walking current_domains[xi] itself, without the deepcopy.
iterated_live(snapshot, live) == live

Iterated(snapshot, live) == snapshot

\* revise, lines 103-113: the for loop from its i-th pass on, and what the
\* call returns with the domains it leaves.
RECURSIVE ReviseLoop(_, _, _, _, _, _)
ReviseLoop(xi, xj, snapshot, doms, revised, i) ==
    LET walked == Iterated(snapshot, doms[xi])
    IN  IF i > Len(walked) THEN [revised |-> revised, domains |-> doms]
        ELSE LET valxi == walked[i]
                 satisfiable == \E k \in 1..Len(doms[xj]) :
                                    constraint_consistent(xi, valxi, xj, doms[xj][k])
             IN  IF satisfiable
                 THEN ReviseLoop(xi, xj, snapshot, doms, revised, i + 1)
                 ELSE ReviseLoop(xi, xj, snapshot,
                                 [doms EXCEPT ![xi] = Remove(doms[xi], valxi)], TRUE, i + 1)

\* revise(csp, xi, xj, current_domains), lines 102-113.
ReviseReturn(xi, xj, doms) == ReviseLoop(xi, xj, doms[xi], doms, FALSE, 1)

ReviseQuery ==
    /\ Idle
    /\ \E xi \in Range(variables), doms \in DomainInputs :
          \E xj \in Range(adjacency[xi]) :
              Answered("revise", <<xi, xj, doms>>, ReviseReturn(xi, xj, doms))

\* The arcs_queue argument as a list.  Line 76: both arcs of every variable
\* and neighbour; line 39: the arcs of the unassigned neighbours of var.
RECURSIVE Flatten(_)
Flatten(lists) == IF lists = <<>> THEN <<>> ELSE Head(lists) \o Flatten(Tail(lists))

FullArcList ==
    Flatten([i \in 1..Len(variables) |->
        LET var == variables[i]
        IN  Flatten([j \in 1..Len(adjacency[var]) |->
                << <<var, adjacency[var][j]>>, <<adjacency[var][j], var>> >>])])

SeedList(var, a) ==
    LET neighbors == SelectSeq(adjacency[var], LAMBDA n : n \notin Keys(a))
    IN  [i \in 1..Len(neighbors) |-> <<neighbors[i], var>>]

\* Lines 95-97: the arcs in the order they are added.
RequeueList(xi, xj, assigned) ==
    LET neighbors == SelectSeq(adjacency[xi], LAMBDA n : n # xj /\ n \notin assigned)
    IN  [i \in 1..Len(neighbors) |-> <<neighbors[i], xi>>]

\* The order of entry after the arcs of added are put into a set that holds
\* pending: an arc the set already has keeps its place.
RECURSIVE Entered(_, _)
Entered(pending, added) ==
    IF added = <<>> THEN pending
    ELSE Entered(IF Head(added) \in Range(pending) THEN pending
                 ELSE Append(pending, Head(added)),
                 Tail(added))

\* The arguments of the direct calls of ac3.  The assignment holds no, one
\* or two variables (keys, in insertion order), each with the one value its
\* domain has, and passes check_partial_assignment; every other variable has
\* the first values of its list in csp.domains, possibly none.  arcs_queue is
\* None without an assignment, and the arcs towards the variable assigned
\* last with one.
KeyLists ==
    {keys \in UNION {[1..n -> Range(variables)] : n \in 0..(Len(variables) - 1)} :
        \A i, j \in 1..Len(keys) : i # j => keys[i] # keys[j]}

AssignmentOf(keys, doms) == [i \in 1..Len(keys) |-> <<keys[i], doms[keys[i]][1]>>]

Ac3Inputs ==
    {input \in [keys : KeyLists, domains : DomainInputs] :
        /\ \A var \in Range(variables) :
              IF var \in Range(input.keys)
              THEN Len(input.domains[var]) = 1
              ELSE input.domains[var] = SubSeq(heap[0][var], 1, Len(input.domains[var]))
        /\ check_partial_assignment(AssignmentOf(input.keys, input.domains))}

Ac3Call ==
    /\ Idle
    /\ \E input \in Ac3Inputs :
          LET a == AssignmentOf(input.keys, input.domains)
              arcs == IF a = <<>> THEN FullArcList ELSE SeedList(a[Len(a)][1], a)
          IN  /\ EnterAc3([heap EXCEPT ![1] = input.domains], 1, Range(arcs), Keys(a),
                          "direct")
              /\ assignment' = a
              /\ entry_order' = Entered(<<>>, arcs)
    /\ UNCHANGED <<csp_vars, query, stack, is_consistent, retval, result>>

\* One iteration of the while loop of a direct call.
Ac3IterationDirect ==
    /\ pc = "ac3"
    /\ \E arc \in arcs_queue :
          /\ Ac3Step(arc)
          /\ LET pending == SelectSeq(entry_order, LAMBDA other : other # arc)
             IN  entry_order' =
                     IF arcs_queue' = arcs_queue \ {arc} THEN pending
                     ELSE Entered(pending, RequeueList(arc[1], arc[2], ac3_assignment))
    /\ UNCHANGED <<csp_vars, query, assignment, stack, current_domains, ac3_assignment,
                   ac3_input, retval, result>>

NextPropagator ==
    \/ ReviseQuery
    \/ Ac3Call
    \/ Ac3IterationDirect
    \/ Ac3Exit

SpecPropagator == InitPropagator /\ [][NextPropagator]_vars

(***************************************************************************)
(* C21 -- Revise: revise(csp, xi, xj, domains) leaves in xi's domain       *)
(* exactly its values that have a constraint_consistent value in xj's      *)
(* domain, in their original order; it changes no other variable's domain  *)
(* and returns True if and only if it removed a value.  That is also what  *)
(* the ac3 step takes revise to do.                                        *)
(***************************************************************************)
ReviseKeepsSupported ==
    query.fn = "revise" =>
        LET xi == query.args[1]
            xj == query.args[2]
            before == query.args[3]
            after == query.answer.domains
        IN  /\ after[xi] =
                  SelectSeq(before[xi], LAMBDA v :
                      \E w \in Range(before[xj]) : constraint_consistent(xi, v, xj, w))
            /\ \A other \in Range(variables) \ {xi} : after[other] = before[other]
            /\ query.answer.revised <=> (Len(after[xi]) < Len(before[xi]))
            /\ after = revise(xi, xj, before)
            /\ query.answer.revised <=> (revise(xi, xj, before) # before)

\* revise removed two values next to each other, kept the value after them,
\* and returned True.
ReviseKeepsSupportedWitness ==
    /\ query.fn = "revise"
    /\ query.answer.revised
    /\ LET before == query.args[3][query.args[1]]
           after == query.answer.domains[query.args[1]]
       IN  \E i \in 1..Len(before) :
              /\ i + 2 <= Len(before)
              /\ before[i] \notin Range(after)
              /\ before[i + 1] \notin Range(after)
              /\ before[i + 2] \in Range(after)

(***************************************************************************)
(* The ac3 of Homework 2/p2_csp_tests/csp_scheduler.py (lines 249-284):    *)
(* arcs_queue is a list, taken from the front (pop(0)) and appended to,    *)
(* and the call has no assignment argument.  The call as a function of its *)
(* arguments; processed and appended record the arcs in the order they are *)
(* taken and appended.                                                     *)
(***************************************************************************)
\* Lines 280-282: the arcs (xk, xi) appended after a revision of xi against xj.
AppendedArcs(xi, xj) ==
    LET neighbors == SelectSeq(adjacency[xi], LAMBDA xk : xk # xj)
    IN  [i \in 1..Len(neighbors) |-> <<neighbors[i], xi>>]

RECURSIVE Ac3List(_, _, _, _)
Ac3List(queue, doms, processed, appended) ==
    IF queue = <<>>
    THEN [consistent |-> TRUE, domains |-> doms, processed |-> processed,
          appended |-> appended]
    ELSE LET xi == Head(queue)[1]
             xj == Head(queue)[2]
             revised_domains == revise(xi, xj, doms)
             taken == Append(processed, Head(queue))
         IN  IF revised_domains = doms
             THEN Ac3List(Tail(queue), doms, taken, appended)
             ELSE IF revised_domains[xi] = <<>>
             THEN [consistent |-> FALSE, domains |-> revised_domains, processed |-> taken,
                   appended |-> appended]
             ELSE Ac3List(Tail(queue) \o AppendedArcs(xi, xj), revised_domains, taken,
                          appended \o AppendedArcs(xi, xj))

\* The call that backtracking_helper of that file makes (lines 180-188) for
\* the tentative assignment the running seeded call was made for.
SeededListRun == Ac3List(SeedList(Top.var, assignment), ac3_input.domains, <<>>, <<>>)

\* One step of the running ac3 call took arc from the set and put into it
\* exactly the arcs of lines 95-97.
TookAndAdded(arc) ==
    LET xi == arc[1]
        xj == arc[2]
        before == heap[current_domains][xi]
        after == heap'[current_domains][xi]
        shrunk == after # before /\ after # <<>>
        unassigned_neighbors ==
            {xk \in Range(adjacency[xi]) : xk # xj /\ xk \notin Keys(assignment)}
    IN  /\ arc \notin arcs_queue'
        /\ arcs_queue' =
              (arcs_queue \ {arc})
                 \cup (IF shrunk THEN {<<xk, xi>> : xk \in unassigned_neighbors} ELSE {})

\* The rule for the ac3 of HW2/Code/p2_csp_tests/backtracking.py alone.
ReenqueueRuleOfSet ==
    [][(pc = "ac3" /\ pc' = "ac3") =>
          /\ \E arc \in arcs_queue : TookAndAdded(arc)
          /\ \A arc \in arcs_queue' \ arcs_queue : arc[1] \notin Keys(assignment)]_vars

(***************************************************************************)
(* C22 -- Re-enqueue rule: in every engine variant, a step of ac3 on arc   *)
(* (Xi, Xj) that shrinks Xi's domain to a non-empty one adds exactly the   *)
(* arcs (Xk, Xi) of the neighbours Xk of Xi other than Xj that are not in  *)
(* the assignment, and during search no arc whose first variable is        *)
(* assigned is ever put on the worklist.                                   *)
(***************************************************************************)
ReenqueueRule ==
    [][/\ (pc = "ac3" /\ pc' = "ac3") =>
             /\ \E arc \in arcs_queue : TookAndAdded(arc)
             /\ \A arc \in arcs_queue' \ arcs_queue : arc[1] \notin Keys(assignment)
       /\ InSeededAc3 =>
             \A i \in 1..Len(SeededListRun.appended) :
                 SeededListRun.appended[i][1] \notin Keys(assignment)]_vars

\* During search, with one variable assigned, the list ac3 appends an arc
\* whose first variable is the assigned one; the set ac3, in the same call,
\* has revised two domains and put arcs back.
ReenqueueRuleWitness ==
    /\ InSeededAc3
    /\ Ac3Returned
    /\ Len(assignment) = 1
    /\ \E i \in 1..Len(SeededListRun.appended) :
          SeededListRun.appended[i][1] \in Keys(assignment)
    /\ Cardinality({v \in Range(variables) :
                      heap[current_domains][v] # ac3_input.domains[v]}) >= 2

\* The step has taken the last value of a domain of the object ac3 works on.
EmptiesADomain ==
    \E var \in Range(variables) :
        /\ heap[current_domains][var] # <<>>
        /\ heap'[current_domains][var] = <<>>

(***************************************************************************)
(* C23 -- Stop on wipe-out: the step of ac3 in which a revision leaves a   *)
(* domain empty is the last of the call, which returns False with the      *)
(* other pending arcs untouched and none added; and whenever ac3 has       *)
(* returned False, a domain of the returned domains is empty.              *)
(***************************************************************************)
StopOnWipeOut ==
    [][/\ pc = "ac3" =>
             /\ EmptiesADomain <=> (pc' = "ac3_return" /\ ~is_consistent')
             /\ EmptiesADomain =>
                   /\ arcs_queue' \subseteq arcs_queue
                   /\ Cardinality(arcs_queue') = Cardinality(arcs_queue) - 1
       /\ (pc' = "ac3_return" /\ ~is_consistent') =>
             \E var \in Range(variables) : heap'[current_domains'][var] = <<>>]_vars

\* A seeded call has returned False with arcs still pending and exactly one
\* domain empty.
StopOnWipeOutWitness ==
    /\ Ac3Returned
    /\ ~is_consistent
    /\ ac3_input.call = "seeded"
    /\ arcs_queue # {}
    /\ Cardinality({var \in Range(variables) : heap[current_domains][var] = <<>>}) = 1

(***************************************************************************)
(* C24 -- FIFO worklist: ac3 keeps its pending arcs in a first-in          *)
(* first-out queue, so the arc a step takes is the pending arc that        *)
(* entered the worklist first, and no arc is processed before one that     *)
(* entered earlier.                                                        *)
(***************************************************************************)
FifoWorklist ==
    [][pc = "ac3" =>
          \A arc \in arcs_queue \ arcs_queue' : arc = Head(entry_order)]_vars

\* A call for an assignment of one variable var, with the arcs (n1, var) and
\* (n2, var): arc (n1, var), the first to enter, is still pending, while
\* (n2, var) has been taken, has shrunk the domain of n2 and has added
\* (n1, n2), and (n1, n2) has been taken as well.
FifoWorklistWitness ==
    /\ pc = "ac3"
    /\ ac3_input.call = "direct"
    /\ Len(assignment) = 1
    /\ entry_order # <<>>
    /\ \E n1, n2 \in Range(variables) \ Keys(assignment) :
          /\ n1 # n2
          /\ Head(entry_order) = <<n1, assignment[1][1]>>
          /\ <<n2, assignment[1][1]>> \notin arcs_queue
          /\ heap[current_domains][n2] # ac3_input.domains[n2]
          /\ <<n1, n2>> \notin arcs_queue
          /\ heap[current_domains][n1] = ac3_input.domains[n1]

(***************************************************************************)
(* backtracking_helper called directly, on domains that no ac3 pass has    *)
(* pruned: the assignment is empty or holds one variable with a value of   *)
(* its list in csp.domains, and current_domains is a copy of csp.domains   *)
(* with that variable cut down to its value.                               *)
(***************************************************************************)
HelperInputs ==
    {<<>>} \cup
    UNION {{<< <<var, val>> >> : val \in Range(heap[0][var])} : var \in Range(variables)}

HelperCall ==
    /\ Idle
    /\ \E a \in HelperInputs :
          LET doms == [var \in Range(variables) |->
                          IF var \in Keys(a) THEN <<Get(a, var)>> ELSE heap[0][var]]
          IN  /\ heap' = [heap EXCEPT ![1] = doms]
              /\ stack' = <<NewFrame(1, doms, a)>>
              /\ assignment' = a
              /\ pc' = "helper"
    /\ UNCHANGED <<csp_vars, query, entry_order, arcs_queue, current_domains, ac3_assignment,
                   is_consistent, ac3_input, retval, result>>

NextHelper ==
    \/ HelperCall
    \/ HelperEnter
    \/ HelperTry
    \/ Ac3Iteration
    \/ Ac3Exit
    \/ HelperAfterAc3
    \/ HelperFail
    \/ HelperResume
    \/ BacktrackingReturn

SpecHelper == InitPropagator /\ [][NextHelper]_vars

\* The for loop of the running helper call is about to try a value.
TryingValue == pc = "loop" /\ Top.idx <= Len(Top.val_order)

(***************************************************************************)
(* C25 -- Localized propagation seed: when the tentative assignment        *)
(* var = val passes check_partial_assignment, ac3 is entered with exactly  *)
(* the arcs (n, var) of the neighbours n of var that are not in the        *)
(* assignment; when it is rejected, ac3 is not run, no recursive call is   *)
(* made and the loop goes on to the next value.                            *)
(***************************************************************************)
SeedIsLocal ==
    [][TryingValue =>
          LET var == Top.var
              val == Top.val_order[Top.idx]
              tentative == Put(assignment, var, val)
              unassigned_neighbors == Range(adjacency[var]) \ Keys(tentative)
          IN  IF check_partial_assignment(tentative)
              THEN /\ pc' = "ac3"
                   /\ assignment' = tentative
                   /\ arcs_queue' = {<<n, var>> : n \in unassigned_neighbors}
                   /\ ac3_input'.arcs = arcs_queue'
                   /\ stack' = stack
              ELSE /\ pc' = "loop"
                   /\ Len(stack') = Len(stack)
                   /\ stack'[Len(stack)].idx = Top.idx + 1
                   /\ var \notin Keys(assignment')
                   /\ UNCHANGED <<arcs_queue, ac3_input, current_domains, is_consistent>>]_vars

\* A helper call entered with one variable assigned has had its first value
\* rejected and is entering ac3 for its second one, with one arc: no ac3
\* call was made before.
SeedIsLocalWitness ==
    /\ pc = "ac3"
    /\ Len(stack) = 1
    /\ Top.idx = 2
    /\ Top.entry_assignment # <<>>
    /\ heap[Len(stack) + 1] = ac3_input.domains
    /\ Cardinality(arcs_queue) = 1
    /\ arcs_queue = ac3_input.arcs
    /\ is_consistent

(***************************************************************************)
(* C26 -- Bounded recursion depth: every recursive call of                 *)
(* backtracking_helper is entered with an assignment that holds exactly    *)
(* one variable more than its caller's assignment held on entry, so the    *)
(* number of nested calls below the root call never exceeds the number of  *)
(* variables.                                                              *)
(***************************************************************************)
BoundedDepth ==
    /\ \A i \in 2..Len(stack) :
          /\ Cardinality(Keys(stack[i].entry_assignment))
                = Cardinality(Keys(stack[i - 1].entry_assignment)) + 1
          /\ Keys(stack[i - 1].entry_assignment) \subseteq Keys(stack[i].entry_assignment)
          /\ Len(stack[i].entry_assignment) = Cardinality(Keys(stack[i].entry_assignment))
    /\ Len(stack) - 1 <= Len(variables)

\* Four variables and four nested calls below the root call, after a call
\* two levels down has failed and its caller has gone on to another value.
BoundedDepthWitness ==
    /\ Len(variables) = Len(MoreCourses)
    /\ Len(stack) = Len(variables) + 1
    /\ \E i \in 2..Len(stack) : stack[i].idx >= 2

(***************************************************************************)
(* C27 -- backtracking(csp) never modifies the problem's own data: in      *)
(* every state of the run, and so when it has returned a solution or None, *)
(* csp.domains holds for every variable the value sequence it held before  *)
(* the call.                                                               *)
(***************************************************************************)
DomainsUntouched ==
    \A var \in Range(variables) :
        heap[0][var] =
            CreateDomain(professors, loc_info_dict, course_info_dict, time_slots, var)

\* backtracking has returned a solution, after ac3 removed values from the
\* copy the root call worked on and the helper cut a domain of it down to
\* one value.
DomainsUntouchedWitness ==
    /\ Done
    /\ result # None
    /\ heap[1] # Free
    /\ heap[1] # heap[0]
    /\ \E var \in Range(variables) : Len(heap[1][var]) = 1 /\ Len(heap[0][var]) > 1

NoEmptyDomain(doms) == \A var \in Range(variables) : doms[var] # <<>>

(***************************************************************************)
(* C28 -- Whenever ac3 has returned True, every variable's domain in the   *)
(* returned domains is non-empty, whatever domains it was given, also when *)
(* a variable started with an empty list.                                  *)
(***************************************************************************)
NonEmptyWhenConsistent ==
    (Ac3Returned /\ is_consistent) => NoEmptyDomain(heap[current_domains])

\* What does hold: True is returned with no domain empty when no domain was
\* empty in the domains given.
NonEmptyWhenConsistentFromNonEmpty ==
    (Ac3Returned /\ is_consistent /\ NoEmptyDomain(ac3_input.domains)) =>
        NoEmptyDomain(heap[current_domains])

\* The full pass on domains that are all empty has gone through all its arcs
\* and returned True.
NonEmptyWhenConsistentWitness ==
    /\ Ac3Returned
    /\ is_consistent
    /\ ac3_input.call = "direct"
    /\ ac3_input.arcs = FullArcs
    /\ arcs_queue = {}
    /\ \A var \in Range(variables) : heap[current_domains][var] = <<>>

\* The seeded call of the set ac3 with nothing filtered out of the arcs it
\* puts back (line 95 without "n not in assignment"), arcs taken in order.
SeededUnfilteredRun == Ac3InOrder(ac3_input.arcs, ac3_input.domains, {})

(***************************************************************************)
(* C29 -- Filtering assigned variables out of the re-enqueued arcs changes *)
(* no outcome: every ac3 call made during search returns the flag that     *)
(* the ac3 which also enqueues the arcs (Xk, Xi) of assigned Xk returns on *)
(* the same arguments, and with True the same domains.                     *)
(***************************************************************************)
FilterChangesNothing ==
    (Ac3Returned /\ ac3_input.call = "seeded") =>
        /\ is_consistent = SeededListRun.consistent
        /\ is_consistent = SeededUnfilteredRun.consistent
        /\ is_consistent =>
              /\ heap[current_domains] = SeededListRun.domains
              /\ heap[current_domains] = SeededUnfilteredRun.domains

\* A seeded call with two variables assigned returned True after removing
\* values, and the ac3 that filters nothing took arcs whose first variable
\* is assigned on the same arguments.
FilterChangesNothingWitness ==
    /\ Ac3Returned
    /\ ac3_input.call = "seeded"
    /\ is_consistent
    /\ Len(assignment) >= 2
    /\ Ac3Pruned
    /\ \E i \in 1..Len(SeededListRun.processed) :
          SeededListRun.processed[i][1] \in Keys(assignment)

(***************************************************************************)
(* C30 -- Assigned variables stay pinned: every call of                    *)
(* backtracking_helper reached from backtracking is entered with an        *)
(* assignment that passes check_partial_assignment and with                *)
(* current_domains[v] equal to the one-element list [assignment[v]] for    *)
(* every variable v of the assignment.                                     *)
(***************************************************************************)
AssignedStayPinned ==
    \A i \in 1..Len(stack) :
        LET frame == stack[i]
        IN  /\ check_partial_assignment(frame.entry_assignment)
            /\ \A v \in Keys(frame.entry_assignment) :
                  frame.entry_domains[v] = <<Get(frame.entry_assignment, v)>>

\* A call two levels below the root has been entered after a seeded pass
\* that removed values of the unassigned variables, with two variables
\* assigned and pinned.
AssignedStayPinnedWitness ==
    /\ pc = "helper"
    /\ Len(stack) = 3
    /\ Len(Top.entry_assignment) = 2
    /\ Ac3Pruned
    /\ \A v \in Keys(Top.entry_assignment) : Len(heap[0][v]) > 1

====
